---- MODULE Spec2Model ----
(***************************************************************************)
(* mcpc: the project scaffolding generator.  One process run is            *)
(* main(): parse the command line, resolve the tool, probe the host for    *)
(* the required executables, refuse an existing target path, run the       *)
(* language's Generator (create_directories, create_files,                 *)
(* init_package_manager, init_git) and report.  The filesystem and the     *)
(* host's executables outlive a run; everything else is per run.           *)
(***************************************************************************)
EXTENDS Integers, Sequences, FiniteSets, TLC

\* Number of consecutive invocations of the program in one behaviour.
MaxRuns == 2

\* Most executables that may be absent from the host in the main specification.
MaxMissing == 1

(***************************************************************************)
(* lib.rs: the closed enumerations and the default-tool table.             *)
(***************************************************************************)
Language == {"Py", "Python", "Ts", "Typescript"}

Tool == {"Uv", "Pnpm", "Yarn", "Npm"}

\* Option<Tool>::None of Cli.tool
NoTool == "None"

\* faulty variant: the TypeScript default for every language
get_default_tool_pnpm_everywhere(language) == "Pnpm"

get_default_tool(language) ==
    IF language \in {"Python", "Py"} THEN "Uv" ELSE "Pnpm"

\* cli.tool.unwrap_or_else(|| get_default_tool(&cli.language))
ResolveTool(cliTool, language) ==
    IF cliTool # NoTool THEN cliTool ELSE get_default_tool(language)

\* Project names given on the command line (the path is the name, verbatim).
\* Every run of a behaviour targets the same path.
ProjectNames == {"demo"}

(***************************************************************************)
(* utils/dependency_checker.rs                                             *)
(***************************************************************************)
Executables == {"git", "python", "python3", "uv", "node", "pnpm", "yarn", "npm"}

\* which(exe).is_ok() on a host where exactly the executables of e resolve
Which(e, exe) == exe \in e

Dependency(name, instructions) ==
    [name |-> name, install_instructions |-> instructions]

\* if <absent> { missing_deps.push(dep) }
PushIf(deps, absent, dep) == IF absent THEN Append(deps, dep) ELSE deps

\* faulty variant: both interpreter names are demanded
PythonAbsent_or(e) == ~Which(e, "python") \/ ~Which(e, "python3")

\* which("python").is_err() && which("python3").is_err()
PythonAbsent(e) == ~Which(e, "python") /\ ~Which(e, "python3")

\* faulty variant: the tool is probed only when nothing is missing so far
ToolProbe_first_only(deps, tool, e) ==
    IF deps # <<>> THEN deps
    ELSE CASE tool = "Pnpm" -> PushIf(deps, ~Which(e, "pnpm"),
                                  Dependency("pnpm", "npm install -g pnpm"))
           [] tool = "Yarn" -> PushIf(deps, ~Which(e, "yarn"),
                                  Dependency("yarn", "npm install -g yarn"))
           [] tool = "Npm"  -> PushIf(deps, ~Which(e, "npm"),
                                  Dependency("npm", "It comes with Node.js, please install Node.js"))
           [] OTHER -> deps

\* the match on tool of the TypeScript branch
ToolProbe(deps, tool, e) ==
    CASE tool = "Pnpm" -> PushIf(deps, ~Which(e, "pnpm"),
                              Dependency("pnpm", "npm install -g pnpm"))
      [] tool = "Yarn" -> PushIf(deps, ~Which(e, "yarn"),
                              Dependency("yarn", "npm install -g yarn"))
      [] tool = "Npm"  -> PushIf(deps, ~Which(e, "npm"),
                              Dependency("npm", "It comes with Node.js, please install Node.js"))
      [] OTHER -> deps

MissingDeps(language, tool, e) ==
    LET git == PushIf(<<>>, ~Which(e, "git"),
                      Dependency("Git", "https://git-scm.com/downloads"))
    IN  IF language \in {"Python", "Py"}
        THEN LET py == PushIf(git, PythonAbsent(e),
                           Dependency("Python 3.10+", "https://www.python.org/downloads/"))
             IN  PushIf(py, tool = "Uv" /\ ~Which(e, "uv"),
                        Dependency("uv", "pip install uv"))
        ELSE LET node == PushIf(git, ~Which(e, "node"),
                             Dependency("Node.js 18+", "https://nodejs.org/"))
             IN  ToolProbe(node, tool, e)

\* Ok(()) | Err(missing_deps)
check_dependencies(language, tool, e) ==
    LET missing_deps == MissingDeps(language, tool, e)
    IN  IF missing_deps = <<>>
        THEN [ok |-> TRUE, missing_deps |-> <<>>]
        ELSE [ok |-> FALSE, missing_deps |-> missing_deps]

\* The executables check_dependencies passes to which() for this pair.
Probed(language, tool) ==
    {"git"} \cup
    (IF language \in {"Python", "Py"}
     THEN {"python", "python3"} \cup (IF tool = "Uv" THEN {"uv"} ELSE {})
     ELSE {"node"} \cup (CASE tool = "Pnpm" -> {"pnpm"}
                           [] tool = "Yarn" -> {"yarn"}
                           [] tool = "Npm"  -> {"npm"}
                           [] OTHER -> {}))

(***************************************************************************)
(* The filesystem: what each candidate project path holds.  by is the run  *)
(* whose create_directories made the directory (0: nobody of this program, *)
(* the entry was there before or was made by another party).               *)
(***************************************************************************)
NoFiles == [p \in {} |-> [content |-> <<>>, mode |-> "644"]]

AbsentNode == [kind |-> "absent", by |-> 0, dirs |-> {}, files |-> NoFiles]

ForeignDir == [kind |-> "dir", by |-> 0, dirs |-> {}, files |-> NoFiles]

ForeignFile == [kind |-> "file", by |-> 0, dirs |-> {}, files |-> NoFiles]

\* faulty variants: is_dir() in place of exists(); no test at all
PathExists_dir_only(node) == node.kind = "dir"

PathExists_never(node) == FALSE

\* project_path.exists()
PathExists(node) == node.kind # "absent"

\* faulty variant: create_dir_all, which accepts an existing directory
AlreadyExists_never(node) == FALSE

\* fs::create_dir fails with AlreadyExists on any existing entry
AlreadyExists(node) == node.kind # "absent"

\* fs::create_dir(&self.project_path) when it succeeds
MkDir(r) == [kind |-> "dir", by |-> r, dirs |-> {}, files |-> NoFiles]

\* fs::create_dir_all(self.project_path.join(dir)) when it succeeds
MkSubDir(node, dir) == [node EXCEPT !.dirs = @ \cup {dir}]

\* fs::write(path, contents) when it succeeds: create or truncate, then write
WriteFile(node, path, content) ==
    [node EXCEPT !.files = (path :> [content |-> content, mode |-> "644"]) @@ @]

\* fs::write that fails after the file was opened: the file is left truncated
TornFile(node, path) ==
    [node EXCEPT !.files = (path :> [content |-> <<"truncated">>, mode |-> "644"]) @@ @]

\* perms.set_mode(0o755); fs::set_permissions(&file_path, perms)
SetExecutable(node, path) ==
    [node EXCEPT !.files = (path :> [content |-> @[path].content, mode |-> "755"]) @@ @]

DoStep(node, s) ==
    IF s.op = "write" THEN WriteFile(node, s.path, s.content)
    ELSE SetExecutable(node, s.path)

RECURSIVE ApplySteps(_, _, _)
\* the first n file operations of steps, each having succeeded
ApplySteps(node, steps, n) ==
    IF n = 0 THEN node ELSE DoStep(ApplySteps(node, steps, n - 1), steps[n])

W(path, content) == [op |-> "write", path |-> path, content |-> content]

(***************************************************************************)
(* generators/python.rs                                                    *)
(***************************************************************************)
PythonGenerator_new(project_name, tool) ==
    [kind |-> "python", project_name |-> project_name, tool |-> tool,
     project_path |-> project_name]

PyDirs == <<>>

\* create_files: the file operations in the order the code performs them
PyFileSteps(g) ==
    << W("pyproject.toml", <<"pyproject.toml", g.project_name>>),
       W("requirements.txt", <<"requirements.txt">>),
       W(".gitignore", <<"python.gitignore">>),
       W("server.py", <<"server.py">>),
       [op |-> "chmod", path |-> "server.py", content |-> <<>>],
       W("README.md", <<"python.README.md", g.project_name>>) >>

\* faulty variant: the result of create_files is dropped
PyGenerateNext_ignore_file_error(step, ret) ==
    CASE step = "create_directories" ->
             IF ret = "Err" THEN "report" ELSE "create_files"
      [] step = "create_files" -> "init_package_manager"
      [] step = "init_package_manager" ->
             IF ret = "Err" THEN "report" ELSE "init_git"
      [] OTHER -> "report"

\* generate(): step()?; in the fixed order, then Ok(())
PyGenerateNext(step, ret) ==
    IF ret = "Err" THEN "report"
    ELSE CASE step = "create_directories" -> "create_files"
           [] step = "create_files" -> "init_package_manager"
           [] step = "init_package_manager" -> "init_git"
           [] OTHER -> "report"

(***************************************************************************)
(* generators/typescript.rs                                                *)
(***************************************************************************)
TypeScriptGenerator_new(project_name, tool) ==
    [kind |-> "typescript", project_name |-> project_name, tool |-> tool,
     project_path |-> project_name]

\* faulty variant: the build-output directory is forgotten
TsDirs_src_only == <<"src">>

TsDirs == <<"src", "build">>

\* match self.tool { Pnpm => "pnpm", Yarn => "yarn", Npm => "npm", _ => "npm" }
PackageManagerCmd(tool) ==
    CASE tool = "Pnpm" -> "pnpm"
      [] tool = "Yarn" -> "yarn"
      [] tool = "Npm"  -> "npm"
      [] OTHER -> "npm"

TsFileSteps(g) ==
    << W("package.json", <<"package.json", g.project_name>>),
       W("tsconfig.json", <<"tsconfig.json">>),
       W(".gitignore", <<"typescript.gitignore">>),
       W(".prettierrc", <<".prettierrc">>),
       W(".prettierignore", <<".prettierignore">>),
       W("src/index.ts", <<"index.ts">>),
       W("README.md", <<"typescript.README.md", g.project_name,
                        PackageManagerCmd(g.tool)>>) >>

RuntimeArgs(tool) ==
    IF tool = "Yarn" THEN <<"add", "@modelcontextprotocol/sdk", "zod">>
    ELSE <<"install", "@modelcontextprotocol/sdk", "zod">>

\* faulty variant: the npm spelling of the dev flag for pnpm too
DevArgs_save_dev_for_pnpm(tool) ==
    IF tool = "Yarn" THEN <<"add", "--dev", "@types/node", "typescript">>
    ELSE <<"install", "--save-dev", "@types/node", "typescript">>

DevArgs(tool) ==
    CASE tool = "Yarn" -> <<"add", "--dev", "@types/node", "typescript">>
      [] tool = "Pnpm" -> <<"install", "-D", "@types/node", "typescript">>
      [] OTHER -> <<"install", "--save-dev", "@types/node", "typescript">>

\* faulty variant: a git that could not be started is tried again
TsGenerateNext_retry_git(step, ret) ==
    IF ret = "Err" THEN (IF step = "init_git" THEN "init_git" ELSE "report")
    ELSE CASE step = "create_directories" -> "create_files"
           [] step = "create_files" -> "init_package_manager"
           [] step = "init_package_manager" -> "init_git"
           [] OTHER -> "report"

TsGenerateNext(step, ret) ==
    IF ret = "Err" THEN "report"
    ELSE CASE step = "create_directories" -> "create_files"
           [] step = "create_files" -> "init_package_manager"
           [] step = "init_package_manager" -> "init_git"
           [] OTHER -> "report"

(***************************************************************************)
(* Dispatch on the generator variant (main.rs, match cli.language).        *)
(***************************************************************************)
NewGeneratorFor(language, project_name, tool) ==
    IF language \in {"Python", "Py"}
    THEN PythonGenerator_new(project_name, tool)
    ELSE TypeScriptGenerator_new(project_name, tool)

SubDirs(g) == IF g.kind = "python" THEN PyDirs ELSE TsDirs

FileSteps(g) == IF g.kind = "python" THEN PyFileSteps(g) ELSE TsFileSteps(g)

GenerateNext(g, step, ret) ==
    IF g.kind = "python" THEN PyGenerateNext(step, ret) ELSE TsGenerateNext(step, ret)

(***************************************************************************)
(* State.                                                                  *)
(***************************************************************************)
VARIABLES
    env,        \* the executables that resolve on the host
    fs,         \* project path -> node
    fs0,        \* fs as it was when the current run started
    run,        \* number of the current run, 1..MaxRuns
    prev,       \* command line of the previous run (cli of run - 1)
    pc,         \* position of main()
    cli,        \* Cli { project_name, language, tool }
    tool,       \* the resolved tool of main()
    checked,    \* arguments and result of the check_dependencies call, once made
    gen,        \* the generator, once constructed
    calls,      \* generator methods that returned, in order, each with its result
    launched,   \* external commands the run tried to launch, in order
    result,     \* what generate() returned
    stdout,     \* lines printed with println!
    stderr,     \* lines printed with eprintln!
    exit_code   \* process exit code, -1 while running

vars == <<env, fs, fs0, run, prev, pc, cli, tool, checked, gen,
          calls, launched, result, stdout, stderr, exit_code>>

NoCli == [project_name |-> "", language |-> "", tool |-> NoTool]

NoCheck == [made |-> FALSE, language |-> "", tool |-> "", ok |-> FALSE,
            missing_deps |-> <<>>]

NoGen == [kind |-> "none", project_name |-> "", tool |-> "", project_path |-> ""]

Hosts == {e \in SUBSET Executables : Cardinality(Executables \ e) <= MaxMissing}

InitialNodes == {AbsentNode, ForeignDir, ForeignFile}

Printed(out, line) == \E i \in 1..Len(out) : out[i] = line

RunInit ==
    /\ pc = "parse"
    /\ cli = NoCli
    /\ tool = ""
    /\ checked = NoCheck
    /\ gen = NoGen
    /\ calls = <<>>
    /\ launched = <<>>
    /\ result = "none"
    /\ stdout = <<>>
    /\ stderr = <<>>
    /\ exit_code = -1

Init ==
    /\ env \in Hosts
    /\ fs \in [ProjectNames -> InitialNodes]
    /\ fs0 = fs
    /\ run = 1
    /\ prev = NoCli
    /\ RunInit

(***************************************************************************)
(* main.rs                                                                 *)
(***************************************************************************)
\* let cli = Cli::parse(); let tool = cli.tool.unwrap_or_else(...)
ParseCli ==
    /\ pc = "parse"
    /\ \E name \in ProjectNames, language \in Language, t \in Tool \cup {NoTool} :
          /\ cli' = [project_name |-> name, language |-> language, tool |-> t]
          /\ tool' = ResolveTool(t, language)
    /\ pc' = "check_dependencies"
    /\ UNCHANGED <<env, fs, fs0, run, prev, checked, gen, calls,
                   launched, result, stdout, stderr, exit_code>>

TargetExistsLine == "Directory already exists. Please choose another project name."

SuccessLine(name) == "Successfully created MCP server project: " \o name

RECURSIVE DepLines(_)
\* the eprintln! lines of the missing-dependency report, one pair per entry
DepLines(deps) ==
    IF deps = <<>> THEN <<>>
    ELSE <<"  - " \o Head(deps).name,
           "    Install with: " \o Head(deps).install_instructions>>
         \o DepLines(Tail(deps))

\* faulty variant: the report is skipped and the run goes on
DepsGate_never(r) == FALSE

\* if let Err(missing_deps) = check_dependencies(..) { ...; process::exit(1) }
DepsGate(r) == ~r.ok

CheckDependencies ==
    /\ pc = "check_dependencies"
    /\ LET r == check_dependencies(cli.language, tool, env)
       IN  /\ checked' = [made |-> TRUE, language |-> cli.language, tool |-> tool,
                          ok |-> r.ok, missing_deps |-> r.missing_deps]
           /\ IF DepsGate(r)
              THEN /\ stderr' = stderr \o <<"Missing required dependencies:">>
                                       \o DepLines(r.missing_deps)
                   /\ exit_code' = 1
                   /\ pc' = "done"
              ELSE /\ pc' = "check_exists"
                   /\ UNCHANGED <<stderr, exit_code>>
    /\ UNCHANGED <<env, fs, fs0, run, prev, cli, tool, gen, calls,
                   launched, result, stdout>>

\* if project_path.exists() { eprintln!(..); process::exit(1) }
CheckTargetExists ==
    /\ pc = "check_exists"
    /\ IF PathExists(fs[cli.project_name])
       THEN /\ stderr' = Append(stderr, TargetExistsLine)
            /\ exit_code' = 1
            /\ pc' = "done"
       ELSE /\ pc' = "new_generator"
            /\ UNCHANGED <<stderr, exit_code>>
    /\ UNCHANGED <<env, fs, fs0, run, prev, cli, tool, checked, gen, calls,
                   launched, result, stdout>>

\* let generator = XGenerator::new(&cli.project_name, &tool); generator.generate()
NewGenerator ==
    /\ pc = "new_generator"
    /\ gen' = NewGeneratorFor(cli.language, cli.project_name, tool)
    /\ pc' = "create_directories"
    /\ UNCHANGED <<env, fs, fs0, run, prev, cli, tool, checked, calls,
                   launched, result, stdout, stderr, exit_code>>

\* a generator method returns ret to generate()
Returned(step, ret) ==
    /\ calls' = Append(calls, [method |-> step, ret |-> ret])
    /\ pc' = GenerateNext(gen, step, ret)
    /\ result' = IF ret = "Err" THEN "Err"
                 ELSE IF GenerateNext(gen, step, ret) = "report" THEN "Ok"
                 ELSE result

(***************************************************************************)
(* Generator methods (python.rs and typescript.rs).                        *)
(***************************************************************************)
RECURSIVE MkSubDirs(_, _, _)
\* the first n subdirectories of dirs, each created
MkSubDirs(node, dirs, n) ==
    IF n = 0 THEN node ELSE MkSubDir(MkSubDirs(node, dirs, n - 1), dirs[n])

\* fs::create_dir fails on an existing path; it may fail on an absent one too
\* (permissions, invalid name).  create_dir_all on a subdirectory may fail.
\* failAt = 0: the root fails; 1..n: that subdirectory fails; n + 1: none fails.
CreateDirectories ==
    /\ pc = "create_directories"
    /\ LET path == gen.project_path
           dirs == SubDirs(gen)
       IN  \E failAt \in 0..(Len(dirs) + 1) :
              /\ AlreadyExists(fs[path]) => failAt = 0
              /\ IF failAt = 0
                 THEN fs' = fs
                 ELSE fs' = [fs EXCEPT ![path] = MkSubDirs(MkDir(run), dirs, failAt - 1)]
              /\ Returned("create_directories",
                          IF failAt = Len(dirs) + 1 THEN "Ok" ELSE "Err")
    /\ UNCHANGED <<env, fs0, run, prev, cli, tool, checked, gen,
                   launched, stdout, stderr, exit_code>>

\* Each file operation may fail; the first failure is returned with `?`.
\* failAt = 0: none fails.  torn: the failing write left a truncated file.
CreateFiles ==
    /\ pc = "create_files"
    /\ LET path == gen.project_path
           steps == FileSteps(gen)
       IN  \E failAt \in 0..Len(steps), torn \in BOOLEAN :
              /\ torn => (failAt > 0 /\ steps[failAt].op = "write")
              /\ LET n == IF failAt = 0 THEN Len(steps) ELSE failAt - 1
                     written == ApplySteps(fs[path], steps, n)
                 IN  fs' = [fs EXCEPT ![path] =
                              IF torn THEN TornFile(written, steps[failAt].path)
                              ELSE written]
              /\ Returned("create_files", IF failAt = 0 THEN "Ok" ELSE "Err")
    /\ UNCHANGED <<env, fs0, run, prev, cli, tool, checked, gen,
                   launched, stdout, stderr, exit_code>>

\* Command::new(exe)...output(): Err when the child cannot be spawned, else the
\* child's exit status.  An executable that does not resolve cannot be spawned.
LaunchOutcomes(exe) ==
    IF Which(env, exe) THEN {"success", "nonzero", "spawn_error"}
    ELSE {"spawn_error"}

Command(cmd, args, cwd, outcome) ==
    [cmd |-> cmd, args |-> args, cwd |-> cwd, outcome |-> outcome]

PyPackageManagerTail ==
    <<"Success: Python virtual environment created!", "Next steps:">>

\* faulty variant: the executable follows the tool the generator captured
PyVenvCmd_by_tool(g) ==
    CASE g.tool = "Pnpm" -> "pnpm"
      [] g.tool = "Yarn" -> "yarn"
      [] g.tool = "Npm"  -> "npm"
      [] OTHER -> "uv"

\* Command::new("uv"): a literal, self._tool is never read
PyVenvCmd(g) == "uv"

\* python.rs init_package_manager
PyInitPackageManager ==
    /\ pc = "init_package_manager"
    /\ gen.kind = "python"
    /\ \E o \in LaunchOutcomes(PyVenvCmd(gen)) :
       /\ launched' = Append(launched, Command(PyVenvCmd(gen), <<"venv">>, gen.project_path, o))
       /\ CASE o = "spawn_error" ->
                  \* .output().context("Failed to create virtual environment with uv venv")?
                  /\ stdout' = Append(stdout, "Creating Python virtual environment with uv...")
                  /\ stderr' = stderr
                  /\ Returned("init_package_manager", "Err")
            [] o = "nonzero" ->
                  /\ stdout' = Append(stdout, "Creating Python virtual environment with uv...")
                               \o PyPackageManagerTail
                  /\ stderr' = stderr \o
                       <<"Warning: Failed to create virtual environment",
                         "Please run 'uv venv' manually in the project directory">>
                  /\ Returned("init_package_manager", "Ok")
            [] OTHER ->
                  /\ stdout' = stdout \o
                                 <<"Creating Python virtual environment with uv...",
                                   "Virtual environment created successfully">>
                               \o PyPackageManagerTail
                  /\ stderr' = stderr
                  /\ Returned("init_package_manager", "Ok")
    /\ UNCHANGED <<env, fs, fs0, run, prev, cli, tool, checked, gen,
                   exit_code>>

\* the eprintln! lines after one invocation: only Err(e), a spawn failure, warns
TsWarn(o, what, manual) ==
    IF o = "spawn_error"
    THEN <<"Warning: Failed to install " \o what \o " dependencies",
           "Please run '" \o manual \o "' manually">>
    ELSE <<>>

\* typescript.rs init_package_manager
TsInitPackageManager ==
    /\ pc = "init_package_manager"
    /\ gen.kind = "typescript"
    /\ LET cmd == PackageManagerCmd(gen.tool)
       IN  /\ \E runtime \in LaunchOutcomes(cmd), dev \in LaunchOutcomes(cmd) :
                 LET both == runtime # "spawn_error" /\ dev # "spawn_error"
                 IN  /\ launched' = launched \o
                            << Command(cmd, RuntimeArgs(gen.tool), gen.project_path, runtime),
                               Command(cmd, DevArgs(gen.tool), gen.project_path, dev) >>
                     /\ stdout' = stdout \o
                            <<"Installing dependencies with " \o cmd \o "...",
                              "Installing runtime dependencies...",
                              "Installing development dependencies...">> \o
                            (IF both THEN <<"Dependencies installed successfully">>
                             ELSE <<>>)
                     /\ stderr' = stderr \o
                            TsWarn(runtime, "runtime",
                                   cmd \o " install @modelcontextprotocol/sdk zod") \o
                            TsWarn(dev, "development",
                                   cmd \o " install --save-dev @types/node typescript") \o
                            (IF both THEN <<>>
                             ELSE <<"Some dependencies may not have been installed properly.",
                                    "Please check the output above and install any missing dependencies manually.">>)
           /\ Returned("init_package_manager", "Ok")
    /\ UNCHANGED <<env, fs, fs0, run, prev, cli, tool, checked, gen,
                   exit_code>>

\* init_git of both variants: .output().context("Failed to initialize git repository")?
\* The exit status of git is not looked at.
InitGit ==
    /\ pc = "init_git"
    /\ \E o \in LaunchOutcomes("git") :
          /\ launched' = Append(launched, Command("git", <<"init">>, gen.project_path, o))
          /\ Returned("init_git", IF o = "spawn_error" THEN "Err" ELSE "Ok")
    /\ UNCHANGED <<env, fs, fs0, run, prev, cli, tool, checked, gen,
                   stdout, stderr, exit_code>>

\* main.rs: match result { Ok(_) => println!(..), Err(e) => { eprintln!(..); exit(1) } }
Report ==
    /\ pc = "report"
    /\ IF result = "Ok"
       THEN /\ stdout' = stdout \o <<SuccessLine(cli.project_name),
                                     "Project location: " \o cli.project_name>>
            /\ exit_code' = 0
            /\ UNCHANGED stderr
       ELSE /\ stderr' = Append(stderr, "Failed to create project")
            /\ exit_code' = 1
            /\ UNCHANGED stdout
    /\ pc' = "done"
    /\ UNCHANGED <<env, fs, fs0, run, prev, cli, tool, checked, gen,
                   calls, launched, result>>

(***************************************************************************)
(* The surroundings of a run.                                              *)
(***************************************************************************)
\* The user invokes the program again in the same working directory.
NextRun ==
    /\ pc = "done"
    /\ run < MaxRuns
    /\ run' = run + 1
    /\ prev' = cli
    /\ fs0' = fs
    /\ pc' = "parse"
    /\ cli' = NoCli
    /\ tool' = ""
    /\ checked' = NoCheck
    /\ gen' = NoGen
    /\ calls' = <<>>
    /\ launched' = <<>>
    /\ result' = "none"
    /\ stdout' = <<>>
    /\ stderr' = <<>>
    /\ exit_code' = -1
    /\ UNCHANGED <<env, fs>>

\* Another party creates the target path after main() saw that it is absent and
\* before create_directories runs.
OtherPartyCreates ==
    /\ pc \in {"new_generator", "create_directories"}
    /\ ~PathExists(fs[cli.project_name])
    /\ \E node \in {ForeignDir, ForeignFile} :
          fs' = [fs EXCEPT ![cli.project_name] = node]
    /\ UNCHANGED <<env, fs0, run, prev, pc, cli, tool, checked, gen,
                   calls, launched, result, stdout, stderr, exit_code>>

Next ==
    \/ ParseCli
    \/ CheckDependencies
    \/ CheckTargetExists
    \/ NewGenerator
    \/ CreateDirectories
    \/ CreateFiles
    \/ PyInitPackageManager
    \/ TsInitPackageManager
    \/ InitGit
    \/ Report
    \/ NextRun
    \/ OtherPartyCreates

Spec == Init /\ [][Next]_vars

\* main() and generate() are sequential code: a statement that can run does run.
ProgramStep ==
    \/ ParseCli
    \/ CheckDependencies
    \/ CheckTargetExists
    \/ NewGenerator
    \/ CreateDirectories
    \/ CreateFiles
    \/ Report

ProgramProgress == WF_vars(ProgramStep)

\* Command::output() blocks until the child exits; there is no timeout.  That
\* every launched child exits is an assumption about the children, stated here
\* as fairness of the steps that wait for them.
ChildWait ==
    \/ PyInitPackageManager
    \/ TsInitPackageManager
    \/ InitGit

ChildrenExit == WF_vars(ChildWait)

\* one invocation from its start to its exit, with whatever another party does
\* to the target path meanwhile
NextLive == ProgramStep \/ ChildWait \/ OtherPartyCreates

SpecLive == Init /\ [][NextLive]_vars /\ ProgramProgress /\ ChildrenExit

(***************************************************************************)
(* check_dependencies on its own: every (language, tool) pair reaches the  *)
(* call on every host (the tool given explicitly on the command line).     *)
(***************************************************************************)
InitDeps ==
    /\ env \in SUBSET Executables
    /\ fs = [n \in ProjectNames |-> AbsentNode]
    /\ fs0 = fs
    /\ run = 1
    /\ prev = NoCli
    /\ pc = "check_dependencies"
    /\ cli \in {[project_name |-> n, language |-> l, tool |-> t] :
                  n \in ProjectNames, l \in Language, t \in Tool}
    /\ tool = ResolveTool(cli.tool, cli.language)
    /\ checked = NoCheck
    /\ gen = NoGen
    /\ calls = <<>>
    /\ launched = <<>>
    /\ result = "none"
    /\ stdout = <<>>
    /\ stderr = <<>>
    /\ exit_code = -1

NextDeps == CheckDependencies

SpecDeps == InitDeps /\ [][NextDeps]_vars

(***************************************************************************)
(* Properties.                                                             *)
(***************************************************************************)
Order == <<"create_directories", "create_files", "init_package_manager", "init_git">>

Generating == gen.kind # "none"

\* the launches of the package-manager step and of the git step
PmLaunches == {i \in 1..Len(launched) : launched[i].cmd # "git"}

GitLaunches == {i \in 1..Len(launched) : launched[i].cmd = "git"}

\* C1: generate() calls create_directories, create_files, init_package_manager,
\* init_git in that order; a step is called only when every earlier one returned
\* Ok; after a step returned Err no further step is called and generate()
\* returns Err; generate() returns Ok only after all four returned Ok.
C1_StepOrder ==
    /\ Len(calls) <= Len(Order)
    /\ \A i \in 1..Len(calls) : calls[i].method = Order[i]
    /\ \A i \in 1..(Len(calls) - 1) : calls[i].ret = "Ok"
    /\ (Len(calls) > 0 /\ calls[Len(calls)].ret = "Err")
          => (result = "Err" /\ pc \in {"report", "done"})
    /\ result = "Err" => (Len(calls) > 0 /\ calls[Len(calls)].ret = "Err")
    /\ result = "Ok" => (Len(calls) = Len(Order) /\ \A i \in 1..Len(calls) : calls[i].ret = "Ok")
    /\ (Generating /\ pc \in {"report", "done"}) => result # "none"
    /\ (Generating /\ pc \in {"create_directories", "create_files",
                              "init_package_manager", "init_git"})
          => (Len(calls) < Len(Order) /\ pc = Order[Len(calls) + 1])

C1_Witness ==
    /\ pc = "done"
    /\ gen.kind = "python"
    /\ Len(calls) = 2
    /\ calls[2].ret = "Err"
    /\ exit_code = 1

\* C2: when check_dependencies returned a non-empty list the run has exited
\* with code 1, no generator exists, no generator method ran, nothing was
\* launched and the filesystem is as it was when the run started; and the check
\* itself changes nothing on the filesystem, whatever it returned.
C2_MissingDepsAbort ==
    /\ (checked.made /\ checked.missing_deps # <<>>)
          => /\ pc = "done"
             /\ exit_code = 1
             /\ gen = NoGen
             /\ calls = <<>>
             /\ launched = <<>>
             /\ fs = fs0
    /\ pc = "check_exists" => fs = fs0

C2_Witness ==
    /\ checked.made
    /\ Len(checked.missing_deps) > 0
    /\ pc = "done"
    /\ exit_code = 1
    /\ fs[cli.project_name] = AbsentNode

\* the target path existed when main() tested it (nothing changes the
\* filesystem between the start of a run and that test)
TargetExisted ==
    /\ checked.made
    /\ checked.ok
    /\ pc # "check_exists"
    /\ fs0[cli.project_name].kind \in {"dir", "file"}

\* C3: when the preflight check passed and the target path exists, as a
\* directory or as a regular file, the run has exited with code 1, no generator
\* was constructed or run, the filesystem is unchanged and the success line was
\* not printed.
C3_TargetExistsAbort ==
    TargetExisted
       => /\ pc = "done"
          /\ exit_code = 1
          /\ Printed(stderr, TargetExistsLine)
          /\ gen = NoGen
          /\ calls = <<>>
          /\ launched = <<>>
          /\ fs = fs0
          /\ ~Printed(stdout, SuccessLine(cli.project_name))

C3_Witness ==
    /\ TargetExisted
    /\ fs0[cli.project_name].kind = "file"
    /\ pc = "done"

\* the previous run's create_directories made the directory that the current
\* run, given the same project name, targets
RunAfterCreation ==
    /\ run > 1
    /\ cli # NoCli
    /\ prev.project_name = cli.project_name
    /\ fs0[cli.project_name].kind = "dir"
    /\ fs0[cli.project_name].by = run - 1

\* the current run also repeats the previous run's language and tool option
SameInvocation == RunAfterCreation /\ prev = cli

\* C4 as stated: every finished run on a project name whose directory the
\* previous run created ended with the target-exists error and exit code 1,
\* the filesystem unchanged.
C4_AlwaysTargetExists ==
    (RunAfterCreation /\ pc = "done")
       => /\ exit_code = 1
          /\ Printed(stderr, TargetExistsLine)
          /\ fs = fs0

\* C4, amended: a run on a project name whose directory the previous run
\* created never changes the filesystem and runs no generator method; it ends
\* with exit code 1, with the target-exists error exactly when its own
\* dependency check passed, which it does when it repeats the previous run's
\* language and tool.
C4_SecondRunFails ==
    RunAfterCreation
       => /\ fs = fs0
          /\ gen = NoGen
          /\ calls = <<>>
          /\ pc \in {"check_dependencies", "check_exists", "done"}
          /\ pc = "done"
                => /\ exit_code = 1
                   /\ Printed(stderr, TargetExistsLine) <=> checked.ok
                   /\ ~checked.ok => Printed(stderr, "Missing required dependencies:")
                   /\ SameInvocation => Printed(stderr, TargetExistsLine)

C4_Witness ==
    /\ SameInvocation
    /\ pc = "done"
    /\ fs0[cli.project_name].files # NoFiles
    /\ exit_code = 1
    /\ Printed(stderr, TargetExistsLine)

\* C5: every init_package_manager call returns Ok and is followed by init_git,
\* whether the package manager exits non-zero or cannot be launched.
C5_PackageManagerNeverAborts ==
    \A i \in 1..Len(calls) :
       calls[i].method = "init_package_manager"
          => /\ calls[i].ret = "Ok"
             /\ pc = "init_git" \/ Len(calls) > i

\* the lines of the package-manager steps that tell the user what to run by hand
ManualRecoveryLines ==
    {"Please run 'uv venv' manually in the project directory"} \cup
    {"Please run '" \o c \o " install @modelcontextprotocol/sdk zod' manually" :
        c \in {"pnpm", "yarn", "npm"}} \cup
    {"Please run '" \o c \o " install --save-dev @types/node typescript' manually" :
        c \in {"pnpm", "yarn", "npm"}}

\* C6: a finished run whose package-manager commands were all launched and
\* exited non-zero (git init having succeeded) printed the success line, exited
\* with code 0 and wrote a manual-recovery warning to standard error.
C6_NonZeroStillSucceeds ==
    ( /\ pc = "done"
      /\ PmLaunches # {}
      /\ \A i \in PmLaunches : launched[i].outcome = "nonzero"
      /\ GitLaunches # {}
      /\ \A i \in GitLaunches : launched[i].outcome = "success" )
       => /\ exit_code = 0
          /\ Printed(stdout, SuccessLine(cli.project_name))
          /\ \E k \in 1..Len(stderr) : stderr[k] \in ManualRecoveryLines

\* C7: a finished run whose git init could not be launched or exited non-zero
\* had init_git return Ok, generate() return Ok, and exited with code 0.
C7_GitFailureSoft ==
    ( /\ pc = "done"
      /\ \E i \in GitLaunches : launched[i].outcome # "success" )
       => /\ calls[Len(calls)] = [method |-> "init_git", ret |-> "Ok"]
          /\ result = "Ok"
          /\ exit_code = 0

\* what the (language, tool) pair requires of the host
C8_Satisfied(language, t, e) ==
    /\ "git" \in e
    /\ language \in {"Python", "Py"}
          => /\ "python" \in e \/ "python3" \in e
             /\ t = "Uv" => "uv" \in e
    /\ language \in {"Typescript", "Ts"}
          => /\ "node" \in e
             /\ t = "Pnpm" => "pnpm" \in e
             /\ t = "Yarn" => "yarn" \in e
             /\ t = "Npm" => "npm" \in e

\* C8: check_dependencies returns Ok iff git resolves and, for Python, python
\* or python3 resolves and uv resolves when the tool is Uv, and, for
\* TypeScript, node resolves and the tool's own executable resolves when the
\* tool is Pnpm, Yarn or Npm (Uv adds no requirement).
C8_OkIffAllResolve ==
    checked.made
       => /\ checked.language = cli.language /\ checked.tool = tool
          /\ checked.ok <=> C8_Satisfied(checked.language, checked.tool, env)
          /\ checked.ok <=> checked.missing_deps = <<>>

C8_Witness ==
    /\ checked.made
    /\ checked.ok
    /\ checked.language = "Ts"
    /\ checked.tool = "Uv"
    /\ "uv" \notin env
    /\ "npm" \notin env

\* the dependency names in check order, each with whether it is required and
\* does not resolve
C9_Slots(language, t, e) ==
    << [name |-> "Git", missing |-> "git" \notin e],
       [name |-> IF language \in {"Python", "Py"} THEN "Python 3.10+" ELSE "Node.js 18+",
        missing |-> IF language \in {"Python", "Py"}
                    THEN "python" \notin e /\ "python3" \notin e
                    ELSE "node" \notin e],
       [name |-> IF language \in {"Python", "Py"} THEN "uv"
                 ELSE IF t = "Pnpm" THEN "pnpm" ELSE IF t = "Yarn" THEN "yarn" ELSE "npm",
        missing |-> IF language \in {"Python", "Py"}
                    THEN t = "Uv" /\ "uv" \notin e
                    ELSE \/ t = "Pnpm" /\ "pnpm" \notin e
                         \/ t = "Yarn" /\ "yarn" \notin e
                         \/ t = "Npm" /\ "npm" \notin e] >>

C9_IsMissing(slot) == slot.missing

C9_Names(language, t, e) ==
    LET m == SelectSeq(C9_Slots(language, t, e), C9_IsMissing)
    IN  [i \in 1..Len(m) |-> m[i].name]

\* C9: the returned list names exactly the required dependencies that do not
\* resolve, each once, version control first, then the runtime, then the tool;
\* when exactly one required dependency does not resolve the list has exactly
\* that one entry.
C9_MissingListExact ==
    checked.made
       => LET names == [i \in 1..Len(checked.missing_deps) |-> checked.missing_deps[i].name]
              slots == C9_Slots(checked.language, checked.tool, env)
          IN  /\ names = C9_Names(checked.language, checked.tool, env)
              /\ \A i, j \in 1..Len(names) : names[i] = names[j] => i = j
              /\ \A k \in 1..3 :
                    (slots[k].missing /\ \A j \in (1..3) \ {k} : ~slots[j].missing)
                       => names = <<slots[k].name>>

C9_Witness ==
    /\ checked.made
    /\ ~checked.ok
    /\ checked.language = "Typescript"
    /\ Len(checked.missing_deps) = 3
    /\ checked.missing_deps[3].name = "yarn"

\* the tool main() has to use for the command line of the run
C10_Expected ==
    IF cli.tool # NoTool THEN cli.tool
    ELSE CASE cli.language = "Python" -> "Uv"
           [] cli.language = "Py" -> "Uv"
           [] cli.language = "Typescript" -> "Pnpm"
           [] cli.language = "Ts" -> "Pnpm"

\* C10: get_default_tool maps every language to a tool (Python, Py to Uv;
\* Typescript, Ts to Pnpm); check_dependencies and the generator both receive
\* the explicit tool when one was given and the language's default otherwise.
C10_ToolResolution ==
    /\ \A l \in Language : get_default_tool(l) \in Tool
    /\ cli # NoCli => tool = C10_Expected
    /\ checked.made => (checked.tool = C10_Expected /\ checked.language = cli.language)
    /\ Generating => gen.tool = C10_Expected
    /\ (checked.made /\ Generating) => checked.tool = gen.tool

C10_Witness ==
    /\ Generating
    /\ cli.tool = NoTool
    /\ cli.language = "Py"
    /\ checked.tool = "Uv"
    /\ gen.tool = "Uv"

\* a directory creation or a file operation of the generator returned Err
HardStepFailed ==
    \E i \in 1..Len(calls) :
       /\ calls[i].method \in {"create_directories", "create_files"}
       /\ calls[i].ret = "Err"

\* C11: a finished run has exit code 1 exactly when dependencies were missing,
\* the target path existed, or create_directories or create_files failed, and
\* exit code 0 otherwise; the success line is printed iff the exit code is 0.
C11_ExitCode ==
    pc = "done"
       => /\ exit_code \in {0, 1}
          /\ exit_code = 1 <=> \/ ~checked.ok
                               \/ checked.ok /\ fs0[cli.project_name].kind # "absent"
                               \/ HardStepFailed
          /\ Printed(stdout, SuccessLine(cli.project_name)) <=> exit_code = 0

\* create_directories and create_files both returned Ok
ScaffoldWritten ==
    /\ Len(calls) >= 2
    /\ calls[1].ret = "Ok"
    /\ calls[2].ret = "Ok"

\* C12: once create_directories and create_files returned Ok the project path
\* is a directory holding, for Python, exactly pyproject.toml, requirements.txt,
\* .gitignore, server.py and README.md and no subdirectory, and, for
\* TypeScript, exactly package.json, tsconfig.json, .gitignore, .prettierrc,
\* .prettierignore, README.md and src/index.ts, with the subdirectories src and
\* build, build holding nothing.
C12_Layout ==
    ScaffoldWritten
       => LET n == fs[gen.project_path]
          IN  /\ n.kind = "dir"
              /\ gen.kind = "python"
                    => /\ DOMAIN n.files = {"pyproject.toml", "requirements.txt",
                                            ".gitignore", "server.py", "README.md"}
                       /\ n.dirs = {}
              /\ gen.kind = "typescript"
                    => /\ DOMAIN n.files = {"package.json", "tsconfig.json", ".gitignore",
                                            ".prettierrc", ".prettierignore", "README.md",
                                            "src/index.ts"}
                       /\ n.dirs = {"src", "build"}
              /\ \A f \in DOMAIN n.files : n.files[f].content # <<"truncated">>

C12_Witness ==
    /\ ScaffoldWritten
    /\ gen.kind = "typescript"
    /\ pc = "done"
    /\ exit_code = 0
    /\ "build" \in fs[gen.project_path].dirs

\* create_files returned Err
FileStepFailed ==
    \E i \in 1..Len(calls) : calls[i] = [method |-> "create_files", ret |-> "Err"]

\* the paths of the first k file operations
C13_Paths(steps, k) == {steps[j].path : j \in 1..k}

\* C13: when create_files returned Err, some k-th file operation failed: every
\* file before it is on disk with its whole content, no file after it exists,
\* the k-th is absent or truncated (or not executable), the directory and its
\* subdirectories are still there, no external command was launched,
\* generate() returned Err and the run ends with exit code 1.
C13_PartialNoRollback ==
    FileStepFailed
       => LET steps == FileSteps(gen)
              n == fs[gen.project_path]
          IN  /\ launched = <<>>
              /\ result = "Err"
              /\ pc \in {"report", "done"}
              /\ pc = "done" => exit_code = 1
              /\ n.kind = "dir"
              /\ n.by = run
              /\ n.dirs = {SubDirs(gen)[d] : d \in 1..Len(SubDirs(gen))}
              /\ \E k \in 1..Len(steps) :
                    /\ \A j \in 1..(k - 1) :
                          steps[j].op = "write"
                             => /\ steps[j].path \in DOMAIN n.files
                                /\ n.files[steps[j].path].content = steps[j].content
                    /\ \A j \in (k + 1)..Len(steps) :
                          steps[j].path \notin C13_Paths(steps, k)
                             => steps[j].path \notin DOMAIN n.files
                    /\ IF steps[k].op = "write"
                       THEN \/ steps[k].path \notin DOMAIN n.files
                            \/ n.files[steps[k].path].content = <<"truncated">>
                       ELSE n.files[steps[k].path].mode = "644"
                    /\ DOMAIN n.files \subseteq C13_Paths(steps, k)

C13_Witness ==
    /\ FileStepFailed
    /\ pc = "done"
    /\ exit_code = 1
    /\ gen.kind = "typescript"
    /\ DOMAIN fs[gen.project_path].files = {"package.json", "tsconfig.json", ".gitignore"}
    /\ fs[gen.project_path].files[".gitignore"].content = <<"truncated">>
    /\ fs[gen.project_path].dirs = {"src", "build"}

\* the TypeScript init_package_manager has returned
TsPackageManagerDone ==
    /\ gen.kind = "typescript"
    /\ \E i \in 1..Len(calls) : calls[i].method = "init_package_manager"

\* C14: after the TypeScript init_package_manager both invocations were issued,
\* the step returned Ok, each invocation that could not be launched or exited
\* non-zero has its own warning on standard error, and 'Dependencies installed
\* successfully' is on standard output iff both invocations succeeded.
C14_IndependentWarnings ==
    TsPackageManagerDone
       => /\ Len(launched) >= 2
          /\ launched[1].args = RuntimeArgs(gen.tool)
          /\ launched[2].args = DevArgs(gen.tool)
          /\ calls[3] = [method |-> "init_package_manager", ret |-> "Ok"]
          /\ launched[1].outcome # "success"
                => Printed(stderr, "Warning: Failed to install runtime dependencies")
          /\ launched[2].outcome # "success"
                => Printed(stderr, "Warning: Failed to install development dependencies")
          /\ Printed(stdout, "Dependencies installed successfully")
                <=> (launched[1].outcome = "success" /\ launched[2].outcome = "success")

\* C15: every executable a run tried to launch is one that check_dependencies
\* probed for the (language, tool) pair of the run.
C15_LaunchedWereProbed ==
    \A i \in 1..Len(launched) :
       /\ checked.made
       /\ checked.ok
       /\ launched[i].cmd \in Probed(checked.language, checked.tool)

\* the Python create_files has returned with server.py written in full but not
\* made executable: reading its metadata or setting its mode failed
ChmodFailed ==
    /\ gen.kind = "python"
    /\ \E i \in 1..Len(calls) : calls[i].method = "create_files"
    /\ "server.py" \in DOMAIN fs[gen.project_path].files
    /\ fs[gen.project_path].files["server.py"] = [content |-> <<"server.py">>, mode |-> "644"]

\* C16: when server.py was written but could not be made executable,
\* create_files still returned Ok and README.md was written.
C16_ChmodBestEffort ==
    ChmodFailed
       => /\ calls[2] = [method |-> "create_files", ret |-> "Ok"]
          /\ "README.md" \in DOMAIN fs[gen.project_path].files

\* create_directories runs while the project path exists
C17_RunsOnExisting ==
    /\ pc = "create_directories"
    /\ fs[gen.project_path].kind # "absent"
    /\ pc' # pc

\* C17: create_directories called on an existing path returns Err and leaves
\* the filesystem as it is, also when the path appeared after main() tested it;
\* an entry the current run did not create is never changed by the run.
C17_NoTakeover ==
    /\ [][C17_RunsOnExisting
            => /\ fs' = fs
               /\ calls' = <<[method |-> "create_directories", ret |-> "Err"]>>
               /\ result' = "Err"
               /\ pc' = "report"]_vars
    /\ [](\A n \in ProjectNames :
            fs[n].by # run
               => \/ fs[n] = fs0[n]
                  \/ fs0[n] = AbsentNode /\ fs[n] \in {ForeignDir, ForeignFile})

C17_Witness ==
    /\ pc = "done"
    /\ exit_code = 1
    /\ calls = <<[method |-> "create_directories", ret |-> "Err"]>>
    /\ fs0[cli.project_name] = AbsentNode
    /\ fs[cli.project_name] = ForeignDir

\* the command name, runtime arguments and development arguments per tool
C18_Table(t) ==
    CASE t = "Pnpm" -> [cmd |-> "pnpm",
                        runtime |-> <<"install", "@modelcontextprotocol/sdk", "zod">>,
                        dev |-> <<"install", "-D", "@types/node", "typescript">>]
      [] t = "Yarn" -> [cmd |-> "yarn",
                        runtime |-> <<"add", "@modelcontextprotocol/sdk", "zod">>,
                        dev |-> <<"add", "--dev", "@types/node", "typescript">>]
      [] t \in {"Npm", "Uv"} ->
                       [cmd |-> "npm",
                        runtime |-> <<"install", "@modelcontextprotocol/sdk", "zod">>,
                        dev |-> <<"install", "--save-dev", "@types/node", "typescript">>]

\* C18: the two commands of the TypeScript package-manager step are, for Pnpm,
\* pnpm install .. and pnpm install -D ..; for Yarn, yarn add .. and
\* yarn add --dev ..; for Npm and Uv, npm install .. and npm install --save-dev ..;
\* both carry the same command name and run in the project directory.
C18_CommandShape ==
    TsPackageManagerDone
       => LET e == C18_Table(gen.tool)
          IN  /\ Len(launched) >= 2
              /\ launched[1].cmd = e.cmd
              /\ launched[1].args = e.runtime
              /\ launched[2].cmd = e.cmd
              /\ launched[2].args = e.dev
              /\ launched[1].cwd = cli.project_name
              /\ launched[2].cwd = cli.project_name
              /\ \A i \in 3..Len(launched) : launched[i].cmd = "git"

C18_Witness ==
    /\ TsPackageManagerDone
    /\ gen.tool = "Uv"
    /\ launched[1].cmd = "npm"
    /\ launched[2].args[2] = "--save-dev"
    /\ pc = "done"

\* the Python init_package_manager has returned
PyPackageManagerDone ==
    /\ gen.kind = "python"
    /\ \E i \in 1..Len(calls) : calls[i].method = "init_package_manager"

\* what the Python generator may leave in a file, none of it naming a tool
C19_Contents(name) ==
    [f \in {"pyproject.toml", "requirements.txt", ".gitignore", "server.py", "README.md"} |->
        CASE f = "pyproject.toml" -> <<"pyproject.toml", name>>
          [] f = "requirements.txt" -> <<"requirements.txt">>
          [] f = ".gitignore" -> <<"python.gitignore">>
          [] f = "server.py" -> <<"server.py">>
          [] f = "README.md" -> <<"python.README.md", name>>]

\* C19: the Python package-manager step launches exactly one command, uv venv,
\* in the project directory, whatever tool the generator captured; the file
\* operations, the command and every file on disk are the same for every tool.
C19_UvVenvWhateverTool ==
    gen.kind = "python"
       => /\ PyPackageManagerDone
                => /\ PmLaunches = {1}
                   /\ launched[1].cmd = "uv"
                   /\ launched[1].args = <<"venv">>
                   /\ launched[1].cwd = cli.project_name
          /\ \A i \in 1..Len(launched) : launched[i].cmd \in {"uv", "git"}
          /\ \A t \in Tool :
                /\ PyFileSteps([gen EXCEPT !.tool = t]) = PyFileSteps(gen)
                /\ PyVenvCmd([gen EXCEPT !.tool = t]) = PyVenvCmd(gen)
          /\ \A f \in DOMAIN fs[gen.project_path].files :
                fs[gen.project_path].files[f].content
                   \in {C19_Contents(cli.project_name)[f], <<"truncated">>}

C19_Witness ==
    /\ PyPackageManagerDone
    /\ gen.tool = "Yarn"
    /\ launched[1].cmd = "uv"
    /\ "README.md" \in DOMAIN fs[gen.project_path].files
    /\ pc = "done"
    /\ exit_code = 0

\* package.json has been written whole by the TypeScript generator of this run
PackageJsonWritten ==
    /\ gen.kind = "typescript"
    /\ fs[gen.project_path].by = run
    /\ "package.json" \in DOMAIN fs[gen.project_path].files
    /\ fs[gen.project_path].files["package.json"].content # <<"truncated">>

\* C20: the package.json the TypeScript generator writes carries the invocation
\* name of the resolved tool (pnpm, yarn or npm), so that manifests written for
\* the same project name under different tools differ.
C20_ManifestCarriesTool ==
    PackageJsonWritten
       => \E i \in 1..Len(fs[gen.project_path].files["package.json"].content) :
             fs[gen.project_path].files["package.json"].content[i] = PackageManagerCmd(gen.tool)

\* create_files of this run returned Ok
FileStepSucceeded ==
    \E i \in 1..Len(calls) : calls[i].method = "create_files" /\ calls[i].ret = "Ok"

\* init_package_manager of this run returned Ok
PackageManagerStepFinished ==
    \E i \in 1..Len(calls) : calls[i].method = "init_package_manager" /\ calls[i].ret = "Ok"

\* the launches of one run: no command twice, git last and after the
\* package-manager step, uv venv once, the two installs together and in order
C21_LaunchedOnce ==
    /\ Cardinality(GitLaunches) <= 1
    /\ \A i \in GitLaunches :
          /\ PackageManagerStepFinished
          /\ launched[i].args = <<"init">>
          /\ i = Len(launched)
          /\ \A j \in PmLaunches : j < i
    /\ PmLaunches # {} => FileStepSucceeded
    /\ gen.kind = "python"
          => /\ Cardinality(PmLaunches) <= 1
             /\ \A i \in PmLaunches :
                   launched[i].cmd = "uv" /\ launched[i].args = <<"venv">>
    /\ gen.kind = "typescript"
          => /\ PmLaunches \in {{}, {1, 2}}
             /\ PmLaunches = {1, 2}
                   => /\ launched[1].args = RuntimeArgs(gen.tool)
                      /\ launched[2].args = DevArgs(gen.tool)
                      /\ launched[1].cmd = launched[2].cmd
    /\ Len(launched) <= 3

\* C21: within one run no external command is retried: git init is launched at
\* most once and only after the package-manager step has finished, the Python
\* variant launches uv venv at most once, the TypeScript variant launches its
\* two package-manager commands (runtime, then development) once the file step
\* has succeeded; and when every launched child exits, every run terminates.
C21_NoRetryAndTermination ==
    /\ []C21_LaunchedOnce
    /\ (gen.kind = "typescript" /\ FileStepSucceeded) ~> (PmLaunches = {1, 2})
    /\ (pc # "done") ~> (pc = "done")

C21_Witness ==
    /\ gen.kind = "typescript"
    /\ pc = "done"
    /\ exit_code = 0
    /\ PmLaunches = {1, 2}
    /\ GitLaunches = {3}
    /\ launched[1].outcome = "nonzero"

====
